---- MODULE Spec2Model ----
(***************************************************************************)
(* Model of rustyloot_sniffer.py: the Socket.IO frame decoder, the         *)
(* inventory locator and aggregator, the bounded dedup deque and the run   *)
(* loop of main() with its try/finally around the browser driver.          *)
(*                                                                         *)
(* Python values are tagged records, one field name per Python type:       *)
(*   [none |-> TRUE]            None (also JSON null)                      *)
(*   [b |-> TRUE]               bool                                       *)
(*   [i |-> 250]                int                                        *)
(*   [s |-> "Widget"]           str, atomic                                *)
(*   [head |-> <<"4","2">>, body |-> t]                                    *)
(*                              str whose characters are the characters of *)
(*                              head followed by the JSON text t, where t  *)
(*                              is [wf |-> FALSE] (no JSON document) or    *)
(*                              [wf |-> TRUE, val |-> v] (the text of v)   *)
(*   [l |-> <<v1, v2>>]         list                                       *)
(*   [o |-> <<[k |-> "a", v |-> v1], ...>>]                                *)
(*                              dict, in insertion order, keys unique      *)
(* Money is counted in hundredths: total_price 2.5 is the integer 250.     *)
(* Time is counted in ticks of the inter-poll sleep (0.2 s).               *)
(***************************************************************************)
EXTENDS Integers, Sequences, FiniteSets, TLC

(***************************************************************************)
(* Bounds of the model.                                                    *)
(***************************************************************************)
MaxDuration == 1      \* largest --duration, in seconds
MaxEntries == 2       \* most log entries the source produces in one run
MaxOversleep == 1     \* most ticks a sleep takes beyond its own
MaxRawLen == 2        \* most log entries of one call of the frame extractor

(***************************************************************************)
(* Program constants.                                                      *)
(***************************************************************************)
SeenMaxLen == 2000
TicksPerSecond == 5
AUTH_URL == "https://rustyloot.gg/?auth=true"
WITHDRAW_URL == "https://rustyloot.gg/?withdraw=true&rust=true"
FrameReceived == "Network.webSocketFrameReceived"
FrameSent == "Network.webSocketFrameSent"

(***************************************************************************)
(* Python values.                                                          *)
(***************************************************************************)
PyNone == [none |-> TRUE]
JBool(x) == [b |-> x]
JInt(x) == [i |-> x]
JStr(x) == [s |-> x]
JList(x) == [l |-> x]
JObj(x) == [o |-> x]
KV(key, val) == [k |-> key, v |-> val]
JsonText(val) == [wf |-> TRUE, val |-> val]
BadText == [wf |-> FALSE]
Text(head, body) == [head |-> head, body |-> body]

IsNone(x) == "none" \in DOMAIN x
IsBool(x) == "b" \in DOMAIN x
IsInt(x) == "i" \in DOMAIN x
IsAtom(x) == "s" \in DOMAIN x
IsText(x) == "head" \in DOMAIN x
IsStr(x) == IsAtom(x) \/ IsText(x)
IsList(x) == "l" \in DOMAIN x
IsDict(x) == "o" \in DOMAIN x

\* bool(x): the truth value Python's `or` and `if` test
Truthy(x) ==
  IF IsNone(x) THEN FALSE
  ELSE IF IsBool(x) THEN x.b
  ELSE IF IsInt(x) THEN x.i # 0
  ELSE IF IsAtom(x) THEN x.s # ""
  ELSE IF IsList(x) THEN x.l # <<>>
  ELSE IF IsDict(x) THEN x.o # <<>>
  ELSE TRUE

\* a or b
Or(a, b) == IF Truthy(a) THEN a ELSE b

HasKey(d, key) == \E n \in 1..Len(d.o) : d.o[n].k = key

\* d[key] for a dict that has the key
Item(d, key) == d.o[CHOOSE n \in 1..Len(d.o) : d.o[n].k = key].v

\* d.get(key)
dict_get(d, key) == IF HasKey(d, key) THEN Item(d, key) ELSE PyNone

\* the number a bool or an int stands for in a comparison
NumVal(x) == IF IsBool(x) THEN (IF x.b THEN 1 ELSE 0) ELSE x.i

IsNum(x) == IsBool(x) \/ IsInt(x)

\* a == b
RECURSIVE PyEq(_, _)
PyEq(a, b) ==
  IF IsNum(a) /\ IsNum(b) THEN NumVal(a) = NumVal(b)
  ELSE IF IsNone(a) /\ IsNone(b) THEN TRUE
  ELSE IF IsAtom(a) /\ IsAtom(b) THEN a.s = b.s
  ELSE IF IsText(a) /\ IsText(b) THEN a = b
  ELSE IF IsList(a) /\ IsList(b) THEN
         /\ Len(a.l) = Len(b.l)
         /\ \A n \in 1..Len(a.l) : PyEq(a.l[n], b.l[n])
  ELSE IF IsDict(a) /\ IsDict(b) THEN
         /\ Len(a.o) = Len(b.o)
         /\ \A n \in 1..Len(a.o) :
              /\ HasKey(b, a.o[n].k)
              /\ PyEq(a.o[n].v, Item(b, a.o[n].k))
  ELSE FALSE

\* the strings float() and int() accept, with the number they denote
DecimalStr == ("250" :> 250) @@ ("3" :> 3)

\* float(x) does not raise
FloatOk(x) == IsNum(x) \/ (IsAtom(x) /\ x.s \in DOMAIN DecimalStr)

\* int(x) does not raise
IntOk(x) == IsNum(x) \/ (IsAtom(x) /\ x.s \in DOMAIN DecimalStr)

\* the value of float(x) or int(x) when it does not raise
NumOf(x) == IF IsNum(x) THEN NumVal(x) ELSE DecimalStr[x.s]

\* the exception float(x) or int(x) raises
ConvError(x) == IF IsStr(x) THEN "ValueError" ELSE "TypeError"

Hashable(x) == ~IsList(x) /\ ~IsDict(x)

(***************************************************************************)
(* json.loads and json.dumps.                                              *)
(***************************************************************************)
\* json.loads(t): the value, or a raise when t is no JSON document
json_loads(t) ==
  IF IsText(t) /\ t.head = <<>> /\ t.body.wf
  THEN [ok |-> TRUE, val |-> t.body.val]
  ELSE [ok |-> FALSE]

\* the keys of the model in the order sorted() gives them
KeyOrder == << "amount", "data", "inventory", "market_hash_name", "name",
               "price", "price_cents", "quantity", "title", "x", "y" >>

KeyRank(key) == CHOOSE n \in 1..Len(KeyOrder) : KeyOrder[n] = key

\* insert a pair in a list of pairs sorted by key
RECURSIVE InsertSorted(_, _)
InsertSorted(pairs, p) ==
  IF pairs = <<>> THEN <<p>>
  ELSE IF KeyRank(p.k) < KeyRank(Head(pairs).k) THEN <<p>> \o pairs
  ELSE <<Head(pairs)>> \o InsertSorted(Tail(pairs), p)

RECURSIVE SortPairs(_)
SortPairs(pairs) ==
  IF pairs = <<>> THEN <<>>
  ELSE InsertSorted(SortPairs(Tail(pairs)), Head(pairs))

\* a faulty variant of json_dumps, as json.dumps(x, sort_keys=False): the text
\* keeps the insertion order of the keys
RECURSIVE dumps_unsorted(_)
dumps_unsorted(x) ==
  IF IsList(x) THEN [l |-> [n \in 1..Len(x.l) |-> dumps_unsorted(x.l[n])]]
  ELSE IF IsDict(x) THEN
         [o |-> [n \in 1..Len(x.o) |-> KV(x.o[n].k, dumps_unsorted(x.o[n].v))]]
  ELSE x

\* json.dumps(x, ensure_ascii=False, sort_keys=True): the text of x, which
\* lists the members of every object in sorted key order; two results are
\* the same string exactly when they are equal
RECURSIVE json_dumps(_)
json_dumps(x) ==
  IF IsList(x) THEN [l |-> [n \in 1..Len(x.l) |-> json_dumps(x.l[n])]]
  ELSE IF IsDict(x) THEN
         [o |-> SortPairs([n \in 1..Len(x.o) |->
                             KV(x.o[n].k, json_dumps(x.o[n].v))])]
  ELSE x

\* a representative of the values == identifies with x: True == 1, and two
\* dicts are equal whatever the order of their keys
RECURSIVE eq_key(_)
eq_key(x) ==
  IF IsBool(x) THEN JInt(NumVal(x))
  ELSE IF IsList(x) THEN [l |-> [n \in 1..Len(x.l) |-> eq_key(x.l[n])]]
  ELSE IF IsDict(x) THEN
         [o |-> SortPairs([n \in 1..Len(x.o) |-> KV(x.o[n].k, eq_key(x.o[n].v))])]
  ELSE x

(***************************************************************************)
(* Socket.IO decoder.                                                      *)
(***************************************************************************)
\* payload.startswith("42"); the atomic strings of the model are not
\* Socket.IO frames and do not begin with these characters
startswith42(payload) ==
  /\ IsText(payload)
  /\ Len(payload.head) >= 2
  /\ payload.head[1] = "4"
  /\ payload.head[2] = "2"

\* payload[2:] of a payload that starts with "42"
slice2(payload) == Text(SubSeq(payload.head, 3, Len(payload.head)), payload.body)

\* a faulty variant of event_of, as (arr[0], arr): the name stays in the
\* arguments
event_of_whole_list(r) ==
  IF ~r.ok THEN PyNone
  ELSE IF IsList(r.val) /\ r.val.l # <<>>
       THEN [name |-> Head(r.val.l), args |-> r.val.l]
       ELSE PyNone

\* lines 78-83 once json.loads has returned or raised: the pair
\* (arr[0], arr[1:]) for a non-empty list, None otherwise
event_of(r) ==
  IF ~r.ok THEN PyNone
  ELSE IF IsList(r.val) /\ r.val.l # <<>>
       THEN [name |-> Head(r.val.l), args |-> Tail(r.val.l)]
       ELSE PyNone

\* parse_socketio(payload)
parse_socketio(payload) ==
  IF ~IsStr(payload) \/ ~startswith42(payload) THEN PyNone
  ELSE event_of(json_loads(slice2(payload)))

(***************************************************************************)
(* Inventory candidate locator.                                            *)
(***************************************************************************)
\* a faulty variant of candidates: first.inventory is appended before
\* first.data.inventory
candidates_direct_first(first) ==
  LET nested == IF /\ IsDict(first)
                   /\ IsDict(dict_get(first, "data"))
                   /\ IsList(dict_get(Item(first, "data"), "inventory"))
                THEN << Item(Item(first, "data"), "inventory") >>
                ELSE <<>>
      direct == IF IsDict(first) /\ IsList(dict_get(first, "inventory"))
                THEN << Item(first, "inventory") >>
                ELSE <<>>
      itself == IF IsList(first) THEN << first >> ELSE <<>>
  IN direct \o nested \o itself

\* the list cands as try_extract_inventory fills it for args[0] = first
candidates(first) ==
  LET nested == IF /\ IsDict(first)
                   /\ IsDict(dict_get(first, "data"))
                   /\ IsList(dict_get(Item(first, "data"), "inventory"))
                THEN << Item(Item(first, "data"), "inventory") >>
                ELSE <<>>
      direct == IF IsDict(first) /\ IsList(dict_get(first, "inventory"))
                THEN << Item(first, "inventory") >>
                ELSE <<>>
      itself == IF IsList(first) THEN << first >> ELSE <<>>
  IN nested \o direct \o itself

\* lines 97-100: the first candidate that is a list, else the empty list
first_list(cands) ==
  IF SelectSeq(cands, IsList) # <<>> THEN Head(SelectSeq(cands, IsList)).l ELSE <<>>

\* try_extract_inventory(args): args and the result are Python lists, held
\* as sequences of values
try_extract_inventory(args) ==
  IF args = <<>> THEN <<>> ELSE first_list(candidates(args[1]))

(***************************************************************************)
(* Inventory aggregator.  The aggregate is a dict in insertion order: a    *)
(* sequence of [key, amount, total_price], total_price in hundredths.      *)
(***************************************************************************)
\* the index of name in agg, 0 when it is no key of agg
key_index(agg, name) ==
  IF \E n \in 1..Len(agg) : PyEq(agg[n].key, name)
  THEN CHOOSE n \in 1..Len(agg) : PyEq(agg[n].key, name)
  ELSE 0

\* a faulty variant of accumulate_at, as rec["total_price"] += price * qty
accumulate_price_times_qty(agg, n, name, qty, price) ==
  IF n = 0
  THEN Append(agg, [key |-> name, amount |-> 0 + qty, total_price |-> 0 + price * qty])
  ELSE [agg EXCEPT ![n] = [key |-> agg[n].key,
                           amount |-> agg[n].amount + qty,
                           total_price |-> agg[n].total_price + price * qty]]

\* lines 112-114 with n the index of name in agg:
\* rec = agg.setdefault(name, {"amount": 0, "total_price": 0.0});
\* rec["amount"] += qty; rec["total_price"] += price
accumulate_at(agg, n, name, qty, price) ==
  IF n = 0
  THEN Append(agg, [key |-> name, amount |-> 0 + qty, total_price |-> 0 + price])
  ELSE [agg EXCEPT ![n] = [key |-> agg[n].key,
                           amount |-> agg[n].amount + qty,
                           total_price |-> agg[n].total_price + price]]

accumulate(agg, name, qty, price) ==
  accumulate_at(agg, key_index(agg, name), name, qty, price)

\* it.get("name") or it.get("market_hash_name") or it.get("title") or "UNKNOWN"
item_name(it) ==
  Or(Or(Or(dict_get(it, "name"), dict_get(it, "market_hash_name")),
        dict_get(it, "title")), JStr("UNKNOWN"))

\* it.get("price") or it.get("price_cents") or 0
item_cents(it) == Or(Or(dict_get(it, "price"), dict_get(it, "price_cents")), JInt(0))

\* float(cents) / 100.0 under try/except, in hundredths
price_of(cents) == IF FloatOk(cents) THEN NumOf(cents) ELSE 0

\* it.get("amount") or it.get("quantity") or 1, the argument of int()
item_qty(it) == Or(Or(dict_get(it, "amount"), dict_get(it, "quantity")), JInt(1))

\* lines 106-114 for the name, cents and quantity taken from one record
merge_fields(agg, name, cents, qty) ==
  IF ~IntOk(qty) THEN [agg |-> agg, exc |-> ConvError(qty)]
  ELSE IF ~Hashable(name) THEN [agg |-> agg, exc |-> "TypeError"]
  ELSE [agg |-> accumulate(agg, name, NumOf(qty), price_of(cents)), exc |-> "none"]

\* one pass of the loop body of merge_inventory: the aggregate after it and
\* the exception that leaves it, "none" when it completes
merge_item(agg, it) ==
  IF ~IsDict(it) THEN [agg |-> agg, exc |-> "AttributeError"]
  ELSE merge_fields(agg, item_name(it), item_cents(it), item_qty(it))

\* merge_inventory(agg, items): items are merged in order until one raises;
\* agg is updated in place, so what was merged before the raise stays merged.
\* done counts the records merged.
RECURSIVE merge_inventory(_, _)
merge_count(r) == [agg |-> r.agg, exc |-> r.exc, done |-> r.done + 1]

merge_next(r, rest) ==
  IF r.exc # "none" THEN [agg |-> r.agg, exc |-> r.exc, done |-> 0]
  ELSE merge_count(merge_inventory(r.agg, rest))

merge_inventory(agg, items) ==
  IF items = <<>> THEN [agg |-> agg, exc |-> "none", done |-> 0]
  ELSE merge_next(merge_item(agg, Head(items)), Tail(items))

(***************************************************************************)
(* Frame extractor.                                                        *)
(***************************************************************************)
\* json.loads(entry["message"])["message"] does not raise
has_message(r) == r.ok /\ IsDict(r.val) /\ HasKey(r.val, "message")

entry_ok(entry) == has_message(json_loads(entry.message))

\* safe_get_perf once driver.get_log has returned raw: the "message" member
\* of every entry whose message text parses to an object that has one
safe_get_perf(raw) ==
  [k \in 1..Len(SelectSeq(raw, entry_ok)) |->
     Item(json_loads(SelectSeq(raw, entry_ok)[k].message).val, "message")]

\* r[key] after the subscripts that gave r: the value, or the exception
subscript(r, key) ==
  IF r.exc # "none" THEN r
  ELSE IF ~IsDict(r.val) THEN [exc |-> "TypeError"]
  ELSE IF ~HasKey(r.val, key) THEN [exc |-> "KeyError"]
  ELSE [exc |-> "none", val |-> Item(r.val, key)]

\* m["params"]["response"]["payloadData"]
payload_of(m) ==
  subscript(subscript(subscript([exc |-> "none", val |-> m], "params"),
                      "response"), "payloadData")

\* the direction iter_ws_frames yields for a method, "none" for the others
direction_of(method) ==
  IF PyEq(method, JStr(FrameReceived)) THEN "in"
  ELSE IF PyEq(method, JStr(FrameSent)) THEN "out"
  ELSE "none"

yield_of(direction, p) ==
  IF p.exc # "none" THEN [kind |-> "raise", exc |-> p.exc]
  ELSE [kind |-> "yield", direction |-> direction, payload |-> p.val]

frame_of(m, direction) ==
  IF direction = "none" THEN [kind |-> "skip"]
  ELSE yield_of(direction, payload_of(m))

\* one pass of the loop of iter_ws_frames over the message m: a frame is
\* yielded, nothing is yielded, or an exception leaves the generator
ws_frame(m) ==
  IF ~IsDict(m) THEN [kind |-> "raise", exc |-> "AttributeError"]
  ELSE frame_of(m, direction_of(IF HasKey(m, "method") THEN Item(m, "method")
                                ELSE JStr("")))

\* the generator over the messages msgs: the frames it yields, in order,
\* until it is exhausted or an exception leaves it
RECURSIVE iter_msgs(_)
yield_first(frame, r) == [frames |-> << frame >> \o r.frames, exc |-> r.exc]

frames_from(f, rest) ==
  IF f.kind = "raise" THEN [frames |-> <<>>, exc |-> f.exc]
  ELSE IF f.kind = "skip" THEN iter_msgs(rest)
  ELSE yield_first([direction |-> f.direction, payload |-> f.payload], iter_msgs(rest))

iter_msgs(msgs) ==
  IF msgs = <<>> THEN [frames |-> <<>>, exc |-> "none"]
  ELSE frames_from(ws_frame(Head(msgs)), Tail(msgs))

\* iter_ws_frames(driver), consumed to its end, when driver.get_log returns raw
iter_ws_frames(raw) == iter_msgs(safe_get_perf(raw))

(***************************************************************************)
(* Dedup filter and persistence.                                           *)
(***************************************************************************)
\* sig = (direction, name, json.dumps(evt_args, ensure_ascii=False,
\* sort_keys=True)); the name is held up to ==, so that two signatures are
\* equal tuples exactly when they are equal here
signature(direction, name, evt_args) ==
  [direction |-> direction, name |-> eq_key(name),
   dump |-> json_dumps(JList(evt_args))]

\* a faulty variant of sig_in, as a loop without the test of line 171
never_seen(sig, dq) == FALSE

\* sig in seen
sig_in(sig, dq) == \E n \in 1..Len(dq) : dq[n] = sig

\* a faulty variant of deque_append, as append on a deque without maxlen
append_unbounded(dq, sig) == Append(dq, sig)

\* a faulty variant of deque_append, as append on a deque(maxlen=1999)
append_evicts_early(dq, sig) ==
  IF Len(dq) >= SeenMaxLen - 1 THEN Append(Tail(dq), sig) ELSE Append(dq, sig)

\* seen.append(sig) on a deque(maxlen=2000)
deque_append(dq, sig) ==
  IF Len(dq) >= SeenMaxLen THEN Append(Tail(dq), sig) ELSE Append(dq, sig)

\* str(i) for an int: one of the decimal strings of the model, or else the
\* digits of i
int_text(i) ==
  IF \E d \in DOMAIN DecimalStr : DecimalStr[d] = i
  THEN [str |-> CHOOSE d \in DOMAIN DecimalStr : DecimalStr[d] = i]
  ELSE [digits |-> i]

\* the text json.dump writes for a key of the aggregate: a str as it is, a
\* bool as true or false, an int as its decimal digits
key_text(key) ==
  IF IsAtom(key) THEN [str |-> key.s]
  ELSE IF IsBool(key) THEN [str |-> IF key.b THEN "true" ELSE "false"]
  ELSE int_text(key.i)

\* the document json.dump(data) writes for an aggregate
dump_inventory(agg) ==
  [n \in 1..Len(agg) |-> [key |-> key_text(agg[n].key),
                          amount |-> agg[n].amount,
                          total_price |-> agg[n].total_price]]

\* save_json(INV_FILE, inv): the file then holds the document of inv
save_json(agg) == [doc |-> dump_inventory(agg)]

\* a file that was not written in this run
NoFile == [absent |-> TRUE]

\* a faulty variant of final_report, as {"inventory": {}, "market_sample":
\* market_sample}
report_without_inventory(agg, sample) ==
  [doc |-> [inventory |-> <<>>, market_sample |-> sample]]

\* the document of line 189: {"inventory": inv, "market_sample": market_sample}
final_report(agg, sample) ==
  [doc |-> [inventory |-> dump_inventory(agg), market_sample |-> sample]]

\* `if items:` of line 179
has_items(found) == found # <<>>

\* a faulty variant of quit_in_finally, as driver.quit() at the end of the try
\* block instead of in a finally clause
quit_on_success(e) == e = "none"

\* the finally clause of main runs driver.quit() whatever exception is in flight
quit_in_finally(e) == TRUE

(***************************************************************************)
(* The body of the for loop of main, lines 165-182, for one yielded frame: *)
(* what it leaves in evt, items, inv, seen and the inventory file, whether *)
(* it recorded the signature, whether it called try_extract_inventory, how *)
(* many records it merged, whether it saved, and the exception that leaves *)
(* it.                                                                     *)
(***************************************************************************)
\* the frame is dropped at line 167 or line 172
dropped(e, agg, dq, file) ==
  [evt |-> e, items |-> <<>>, agg |-> agg, seen |-> dq, file |-> file,
   recorded |-> FALSE, extracted |-> FALSE, done |-> 0, saved |-> FALSE,
   exc |-> "none"]

\* a faulty variant of after_merge, as lines 180-182 without save_json
after_merge_unsaved(r, found, e, dq, file) ==
  [evt |-> e, items |-> found, agg |-> r.agg, seen |-> dq, file |-> file,
   recorded |-> TRUE, extracted |-> TRUE, done |-> r.done, saved |-> FALSE,
   exc |-> r.exc]

\* lines 180-182 once merge_inventory has returned r or raised
after_merge(r, found, e, dq, file) ==
  [evt |-> e, items |-> found, agg |-> r.agg, seen |-> dq,
   file |-> IF r.exc = "none" THEN save_json(r.agg) ELSE file,
   recorded |-> TRUE, extracted |-> TRUE, done |-> r.done,
   saved |-> r.exc = "none", exc |-> r.exc]

\* lines 179-182 for the located items
after_extract(found, e, agg, dq, file) ==
  IF has_items(found)
  THEN after_merge(merge_inventory(agg, found), found, e, dq, file)
  ELSE [evt |-> e, items |-> found, agg |-> agg, seen |-> dq, file |-> file,
        recorded |-> TRUE, extracted |-> TRUE, done |-> 0, saved |-> FALSE,
        exc |-> "none"]

\* a faulty variant of after_signature, as a loop that appends the signature
\* inside `if items:` only
record_only_inventory(sig, e, agg, dq, file) ==
  IF sig_in(sig, dq) THEN dropped(e, agg, dq, file)
  ELSE IF has_items(try_extract_inventory(e.args))
  THEN after_extract(try_extract_inventory(e.args), e, agg,
                     deque_append(dq, sig), file)
  ELSE after_extract(<<>>, e, agg, dq, file)

\* lines 171-182 for the signature of the event
after_signature(sig, e, agg, dq, file) ==
  IF sig_in(sig, dq) THEN dropped(e, agg, dq, file)
  ELSE after_extract(try_extract_inventory(e.args), e, agg,
                     deque_append(dq, sig), file)

\* lines 166-182 for the decoded event
after_parse(direction, e, agg, dq, file) ==
  IF IsNone(e) THEN dropped(e, agg, dq, file)
  ELSE after_signature(signature(direction, e.name, e.args), e, agg, dq, file)

loop_body(direction, payload, agg, dq, file) ==
  after_parse(direction, parse_socketio(payload), agg, dq, file)

(***************************************************************************)
(* The log source: what driver.get_log("performance") can return.          *)
(***************************************************************************)
\* the message of a WebSocket frame event carrying payload
WsMessage(method, payload) ==
  JObj(<< KV("method", JStr(method)),
          KV("params", JObj(<< KV("response",
                                  JObj(<< KV("payloadData", payload) >>)) >>)) >>)

\* a log entry whose message text is the JSON document {"message": msg}
LogEntry(msg) == [message |-> Text(<<>>, JsonText(JObj(<< KV("message", msg) >>)))]

\* the Socket.IO event frame 42[name, args...]
SocketIO(name, args) == Text(<<"4", "2">>, JsonText(JList(<<name>> \o args)))

Widget ==
  JObj(<< KV("name", JStr("Widget")), KV("price", JInt(250)), KV("amount", JInt(2)) >>)
WidgetReordered ==
  JObj(<< KV("amount", JInt(2)), KV("price", JInt(250)), KV("name", JStr("Widget")) >>)
GizmoBadPrice ==
  JObj(<< KV("market_hash_name", JStr("Gizmo")), KV("price_cents", JStr("abc")) >>)
WidgetStrings ==
  JObj(<< KV("name", JStr("Widget")), KV("price", JStr("250")),
          KV("quantity", JStr("3")) >>)
WidgetBadQty ==
  JObj(<< KV("name", JStr("Widget")), KV("amount", JStr("abc")) >>)

Nested(records) == JObj(<< KV("data", JObj(<< KV("inventory", JList(records)) >>)) >>)
Direct(records) == JObj(<< KV("inventory", JList(records)) >>)

EvInventory == SocketIO(JStr("inventory"), << Nested(<< Widget >>) >>)
EvInventoryReordered == SocketIO(JStr("inventory"), << Nested(<< WidgetReordered >>) >>)
EvItems == SocketIO(JStr("items"), << JList(<< GizmoBadPrice, WidgetStrings >>) >>)
EvBadQty == SocketIO(JStr("inv"), << Direct(<< Widget, WidgetBadQty >>) >>)
EvPing == SocketIO(JStr("ping"), <<>>)
BadFrame == Text(<<"4", "2">>, BadText)
BadEntry == [message |-> Text(<<>>, BadText)]

\* the entries an ordinary poll draws from
SitePool ==
  << LogEntry(WsMessage(FrameReceived, EvInventory)),
     LogEntry(WsMessage(FrameSent, EvInventory)),
     LogEntry(WsMessage(FrameReceived, EvInventoryReordered)),
     LogEntry(WsMessage(FrameReceived, EvItems)),
     LogEntry(WsMessage(FrameReceived, EvBadQty)),
     LogEntry(WsMessage(FrameReceived, EvPing)),
     LogEntry(WsMessage(FrameReceived, BadFrame)),
     BadEntry >>

\* the entries an ordinary poll draws from on a site that bursts
FloodPool ==
  << LogEntry(WsMessage(FrameReceived, EvInventory)),
     LogEntry(WsMessage(FrameReceived, EvInventoryReordered)),
     LogEntry(WsMessage(FrameReceived, EvPing)) >>

\* a burst: the inventory event, then n pairwise distinct events
\* 42[1], 42[2], ..., 42[n]
FloodBatch(n) ==
  << LogEntry(WsMessage(FrameReceived, EvInventory)) >> \o
  [k \in 1..n |-> LogEntry(WsMessage(FrameReceived, SocketIO(JInt(k), <<>>)))]

\* one short of evicting the signature of the inventory event, and enough
FloodSizes == {SeenMaxLen - 1, SeenMaxLen}

Pool(m) == IF m = "flood" THEN FloodPool ELSE SitePool

\* the batch of the entries of the pool at the positions pick
Batch(m, pick) == [k \in DOMAIN pick |-> Pool(m)[pick[k]]]

Envs == [user : {"", "user"}, pass : {"", "secret"}]

(***************************************************************************)
(* State.                                                                  *)
(***************************************************************************)
VARIABLES
  pc,            \* where main is: start, setup, login, nav, loop, frames,
                 \* report, finally, exit; in the unit harness: unit, returned
  mode,          \* the kind of log source of the run: site, flood, unit
  env,           \* RL_USERNAME and RL_PASSWORD
  duration,      \* args.duration, seconds
  now,           \* time.time(), in ticks
  start,         \* start of the polling loop
  driver,        \* none, open, closed
  visited,       \* the URLs driver.get was called with, in order
  polls,         \* calls of driver.get_log
  quits,         \* calls of driver.quit
  budget,        \* log entries the source can still produce
  floods,        \* bursts the source can still produce
  inv,           \* the aggregate
  market_sample, \* the list of line 151
  seen,          \* the deque of signatures
  pending,       \* messages the generator iter_ws_frames has yet to visit
  evt,           \* the last result of parse_socketio
  items,         \* the last result of try_extract_inventory
  invFile,       \* inventory.json
  outFile,       \* rustyloot_market.json
  exc,           \* the exception in flight, "none" if none
  status,        \* the exit status, -1 while running
  hist,          \* history: the events whose signature was appended to seen
  merged,        \* history: the records merge_inventory has merged
  invWrites,     \* history: writes of inventory.json
  outWrites,     \* history: writes of rustyloot_market.json
  extracts,      \* history: calls of try_extract_inventory
  skips,         \* history: events dropped at line 172 as seen before
  reportAt,      \* history: polls and quits when the report was written
  exhausted,     \* history: the loop condition was found false
  call,          \* unit harness: the last call and its arguments
  yielded,       \* unit harness: the frames iter_ws_frames has yielded
  logRaised      \* history: the last call of driver.get_log raised

vars == << pc, mode, env, duration, now, start, driver, visited, polls, quits,
           budget, floods, inv, market_sample, seen, pending, evt, items,
           invFile, outFile, exc, status, hist, merged, invWrites, outWrites,
           extracts, skips, reportAt, exhausted, call, yielded, logRaised >>

NoCall == [fn |-> "none"]

\* the values of everything but pc, mode, env and duration before main runs
Blank ==
  /\ now = 0
  /\ start = 0
  /\ driver = "none"
  /\ visited = <<>>
  /\ polls = 0
  /\ quits = 0
  /\ budget = MaxEntries
  /\ inv = <<>>
  /\ market_sample = <<>>
  /\ seen = <<>>
  /\ pending = <<>>
  /\ evt = PyNone
  /\ items = <<>>
  /\ invFile = NoFile
  /\ outFile = NoFile
  /\ exc = "none"
  /\ status = -1
  /\ hist = <<>>
  /\ merged = <<>>
  /\ invWrites = 0
  /\ outWrites = 0
  /\ extracts = 0
  /\ skips = 0
  /\ reportAt = [polls |-> -1, quits |-> -1]
  /\ exhausted = FALSE
  /\ call = NoCall
  /\ yielded = <<>>
  /\ logRaised = FALSE

\* main starts, on an ordinary site
Init ==
  /\ pc = "start"
  /\ mode = "site"
  /\ env \in Envs
  /\ duration \in -1..MaxDuration
  /\ floods = 0
  /\ Blank

\* main starts, on a site whose first poll returns a burst
InitFlood ==
  /\ pc = "start"
  /\ mode = "flood"
  /\ env \in Envs
  /\ duration \in -1..MaxDuration
  /\ floods = 1
  /\ Blank

(***************************************************************************)
(* main.                                                                   *)
(***************************************************************************)
\* a faulty variant of missing_credentials, as `if not username:`
missing_username(username, password) == username = ""

\* line 146: not username or not password
missing_credentials(username, password) == username = "" \/ password = ""

\* lines 144-151: the credentials check, then inv = {} and market_sample = []
Start ==
  /\ pc = "start"
  /\ IF missing_credentials(env.user, env.pass)
     THEN /\ pc' = "exit"
          /\ status' = 1
          /\ UNCHANGED << inv, market_sample >>
     ELSE /\ pc' = "setup"
          /\ inv' = <<>>
          /\ market_sample' = <<>>
          /\ UNCHANGED status
  /\ UNCHANGED << mode, env, duration, now, start, driver, visited, polls, quits,
                  budget, floods, seen, pending, evt, items, invFile, outFile,
                  exc, hist, merged, invWrites, outWrites, extracts, skips, reportAt,
                  exhausted, call,
                  yielded, logRaised >>

\* line 153: setup_driver returns the driver, or raises before the try
SetupDriver ==
  /\ pc = "setup"
  /\ \E ok \in BOOLEAN :
       IF ok
       THEN /\ driver' = "open"
            /\ pc' = "login"
            /\ UNCHANGED << exc, status >>
       ELSE /\ exc' = "WebDriverException"
            /\ status' = 1
            /\ pc' = "exit"
            /\ UNCHANGED driver
  /\ UNCHANGED << mode, env, duration, now, start, visited, polls, quits, budget,
                  floods, inv, market_sample, seen, pending, evt, items, invFile,
                  outFile, hist, merged, invWrites, outWrites, extracts, skips, reportAt,
                  exhausted, call,
                  yielded, logRaised >>

\* a faulty variant of login_result, as a login whose timeout is caught and
\* logged in main, which then goes on
login_error_ignored(outcome) ==
  IF outcome = "ok"
  THEN [pc |-> "nav", exc |-> "none"]
  ELSE [pc |-> "nav", exc |-> "TimeoutException"]

\* lines 121-136 and 155: login returns, or one of its two bounded waits
\* (the form at line 124, the URL at line 135) raises and the exception
\* leaves the try block of main
login_result(outcome) ==
  IF outcome = "ok"
  THEN [pc |-> "nav", exc |-> "none"]
  ELSE [pc |-> "finally", exc |-> "TimeoutException"]

LoginTo(r) == pc' = r.pc /\ exc' = r.exc

\* line 155: login opens the auth page, then returns or raises on a timeout
Login ==
  /\ pc = "login"
  /\ visited' = Append(visited, AUTH_URL)
  /\ \E outcome \in {"ok", "no_form", "no_redirect"} : LoginTo(login_result(outcome))
  /\ UNCHANGED << mode, env, duration, now, start, driver, polls, quits, budget,
                  floods, inv, market_sample, seen, pending, evt, items, invFile,
                  outFile, status, hist, merged, invWrites, outWrites, extracts, skips,
                  reportAt, exhausted, call,
                  yielded, logRaised >>

\* lines 157-160: open the shop, create the deque, take the start time
Navigate ==
  /\ pc = "nav"
  /\ visited' = Append(visited, WITHDRAW_URL)
  /\ seen' = <<>>
  /\ start' = now
  /\ pc' = "loop"
  /\ UNCHANGED << mode, env, duration, now, driver, polls, quits, budget, floods,
                  inv, market_sample, pending, evt, items, invFile, outFile, exc,
                  status, hist, merged, invWrites, outWrites, extracts, skips, reportAt,
                  exhausted, call,
                  yielded, logRaised >>

\* the loop condition of line 163
in_budget == now - start < duration * TicksPerSecond

\* the variables the for loop of main changes, as a record
LoopState ==
  [pc |-> pc, inv |-> inv, seen |-> seen, evt |-> evt, items |-> items,
   invFile |-> invFile, exc |-> exc, hist |-> hist, merged |-> merged,
   invWrites |-> invWrites, extracts |-> extracts, skips |-> skips]

\* the loop state after the body of the for loop left r for a frame of this
\* direction
body_step(st, direction, r) ==
  [pc |-> IF r.exc = "none" THEN "frames" ELSE "finally",
   inv |-> r.agg,
   seen |-> r.seen,
   evt |-> r.evt,
   items |-> IF r.extracted THEN r.items ELSE st.items,
   invFile |-> r.file,
   exc |-> r.exc,
   hist |-> IF r.recorded
            THEN Append(st.hist, [direction |-> direction, name |-> r.evt.name,
                                  args |-> r.evt.args])
            ELSE st.hist,
   merged |-> st.merged \o SubSeq(r.items, 1, r.done),
   invWrites |-> IF r.saved THEN st.invWrites + 1 ELSE st.invWrites,
   extracts |-> IF r.extracted THEN st.extracts + 1 ELSE st.extracts,
   skips |-> IF ~IsNone(r.evt) /\ ~r.recorded THEN st.skips + 1 ELSE st.skips]

\* lines 66-72 and 164-182 for one message: the generator has visited it
\* with the outcome f and, when it yielded a frame, the body of the for loop
\* has run on it; nothing runs once an exception has left the loop
frame_step(st, f) ==
  IF st.pc # "frames" THEN st
  ELSE IF f.kind = "skip" THEN st
  ELSE IF f.kind = "raise" THEN [st EXCEPT !.pc = "finally", !.exc = f.exc]
  ELSE body_step(st, f.direction,
                 loop_body(f.direction, f.payload, st.inv, st.seen, st.invFile))

\* the for loop over the messages msgs[lo..hi], in order; it goes on from
\* the state left after msgs[lo..mid] unless an exception has left the loop
RECURSIVE frames_run(_, _, _, _)
frames_after(left, msgs, lo, hi) ==
  IF left.pc # "frames" THEN left ELSE frames_run(left, msgs, lo, hi)

frames_run(st, msgs, lo, hi) ==
  IF lo > hi THEN st
  ELSE IF lo = hi THEN frame_step(st, ws_frame(msgs[lo]))
  ELSE frames_after(frames_run(st, msgs, lo, (lo + hi) \div 2),
                    msgs, (lo + hi) \div 2 + 1, hi)

\* the for loop over all of msgs, entered from the while loop
for_loop(st, msgs) == frames_run([st EXCEPT !.pc = "frames"], msgs, 1, Len(msgs))

\* the variables of the for loop take the values of st
LoopSet(st) ==
  /\ pc' = st.pc
  /\ inv' = st.inv
  /\ seen' = st.seen
  /\ evt' = st.evt
  /\ items' = st.items
  /\ invFile' = st.invFile
  /\ exc' = st.exc
  /\ hist' = st.hist
  /\ merged' = st.merged
  /\ invWrites' = st.invWrites
  /\ extracts' = st.extracts
  /\ skips' = st.skips

\* lines 163-164 and 52-64: the condition holds and get_log returns raw.  On
\* the first poll of a bursting site raw is a burst, and the step is the
\* poll with the whole for loop over it (lines 164-182 for each of its
\* frames in turn): no other step of main comes between two of them.
Poll ==
  /\ pc = "loop"
  /\ in_budget
  /\ \/ /\ floods = 0
        /\ \E len \in 0..budget : \E pick \in [1..len -> 1..Len(Pool(mode))] :
             /\ pending' = safe_get_perf(Batch(mode, pick))
             /\ budget' = budget - len
        /\ pc' = "frames"
        /\ UNCHANGED << floods, inv, seen, evt, items, invFile, exc, hist, merged,
                        invWrites, extracts, skips >>
     \/ /\ floods > 0
        /\ \E n \in FloodSizes :
             LoopSet(for_loop(LoopState, safe_get_perf(FloodBatch(n))))
        /\ pending' = <<>>
        /\ floods' = floods - 1
        /\ UNCHANGED budget
  /\ polls' = polls + 1
  /\ logRaised' = FALSE
  /\ UNCHANGED << mode, env, duration, now, start, driver, visited, quits,
                  market_sample, outFile, status, outWrites, reportAt, exhausted,
                  call,
                  yielded >>

\* a faulty variant of get_log_raised, as safe_get_perf without the
\* try/except around driver.get_log
get_log_error_escapes == [out |-> <<>>, exc |-> "WebDriverException"]

\* lines 54-57 when get_log raises: the exception is caught and out, still
\* empty, is returned
get_log_raised == [out |-> <<>>, exc |-> "none"]

PollFailsTo(r) ==
  /\ pending' = r.out
  /\ exc' = r.exc
  /\ pc' = IF r.exc = "none" THEN "frames" ELSE "finally"

\* lines 54-57: get_log raises and safe_get_perf returns the empty list
PollFails ==
  /\ pc = "loop"
  /\ in_budget
  /\ floods = 0
  /\ PollFailsTo(get_log_raised)
  /\ polls' = polls + 1
  /\ logRaised' = TRUE
  /\ UNCHANGED << mode, env, duration, now, start, driver, visited, quits, budget,
                  floods, inv, market_sample, seen, evt, items, invFile, outFile,
                  status, hist, merged, invWrites, outWrites, extracts, skips,
                  reportAt, exhausted, call, yielded >>

\* the for loop moves on to st: to the next message, or out of the loop
\* with an exception
FrameTo(st) ==
  /\ LoopSet(st)
  /\ pending' = IF st.pc = "frames" THEN Tail(pending) ELSE <<>>

\* lines 66-72 and 164-182: the generator visits the next message and, when
\* it yields a frame, the body of the for loop runs on it
Frame ==
  /\ pc = "frames"
  /\ pending # <<>>
  /\ FrameTo(frame_step(LoopState, ws_frame(Head(pending))))
  /\ UNCHANGED << mode, env, duration, now, start, driver, visited, polls, quits,
                  budget, floods, market_sample, outFile, status, outWrites,
                  reportAt, exhausted, call,
                  yielded, logRaised >>

\* line 186: the frames of this poll are done; time.sleep(0.2) takes one tick
\* or more
Sleep ==
  /\ pc = "frames"
  /\ pending = <<>>
  /\ \E passed \in 1..(1 + MaxOversleep) : now' = now + passed
  /\ pc' = "loop"
  /\ UNCHANGED << mode, env, duration, start, driver, visited, polls, quits,
                  budget, floods, inv, market_sample, seen, pending, evt, items,
                  invFile, outFile, exc, status, hist, merged, invWrites,
                  outWrites, extracts, skips, reportAt, exhausted, call,
                  yielded, logRaised >>

\* line 163: the loop condition is false
Exhausted ==
  /\ pc = "loop"
  /\ ~in_budget
  /\ exhausted' = TRUE
  /\ pc' = "report"
  /\ UNCHANGED << mode, env, duration, now, start, driver, visited, polls, quits,
                  budget, floods, inv, market_sample, seen, pending, evt, items,
                  invFile, outFile, exc, status, hist, merged, invWrites,
                  outWrites, extracts, skips, reportAt, call,
                  yielded, logRaised >>

\* a faulty variant of after_report, as a report written inside the while
\* loop
report_then_loop == "loop"

\* line 201: return 0 leaves the try block for the finally clause
after_report == "finally"

\* lines 189-201: the final report, then return 0
Report ==
  /\ pc = "report"
  /\ outFile' = final_report(inv, market_sample)
  /\ outWrites' = outWrites + 1
  /\ reportAt' = [polls |-> polls, quits |-> quits]
  /\ status' = 0
  /\ pc' = after_report
  /\ UNCHANGED << mode, env, duration, now, start, driver, visited, polls, quits,
                  budget, floods, inv, market_sample, seen, pending, evt, items,
                  invFile, exc, hist, merged, invWrites, extracts, skips, exhausted,
                  call,
                  yielded, logRaised >>

\* lines 202-203: the finally clause, then main returns or the exception
\* leaves it
Finally ==
  /\ pc = "finally"
  /\ IF quit_in_finally(exc)
     THEN driver' = "closed" /\ quits' = quits + 1
     ELSE UNCHANGED << driver, quits >>
  /\ status' = IF exc = "none" THEN status ELSE 1
  /\ pc' = "exit"
  /\ UNCHANGED << mode, env, duration, now, start, visited, polls, budget, floods,
                  inv, market_sample, seen, pending, evt, items, invFile, outFile,
                  exc, hist, merged, invWrites, outWrites, extracts, skips, reportAt,
                  exhausted, call,
                  yielded, logRaised >>

Next ==
  \/ Start
  \/ SetupDriver
  \/ Login
  \/ Navigate
  \/ Poll
  \/ PollFails
  \/ Frame
  \/ Sleep
  \/ Exhausted
  \/ Report
  \/ Finally

Spec == Init /\ [][Next]_vars

SpecFlood == InitFlood /\ [][Next]_vars

(***************************************************************************)
(* Unit harness: parse_socketio, try_extract_inventory and merge_inventory *)
(* called on their own, each on one input drawn from a bounded set.        *)
(***************************************************************************)
Gizmo == JObj(<< KV("market_hash_name", JStr("Gizmo")), KV("price_cents", JInt(500)) >>)

UnitHeads == { <<>>, <<"4">>, <<"4", "2">>, <<"4", "0">>, <<"2", "4">> }

UnitBodies ==
  { BadText,
    JsonText(JList(<<>>)),
    JsonText(JList(<< JStr("priceUpdate"), JObj(<< KV("x", JInt(1)) >>) >>)),
    JsonText(JList(<< JInt(7) >>)),
    JsonText(JList(<< PyNone, JStr("a"), JInt(2) >>)),
    JsonText(JList(<< JObj(<< KV("x", JInt(1)) >>), JList(<<>>) >>)),
    JsonText(JObj(<< KV("x", JInt(1)) >>)),
    JsonText(JInt(17)),
    JsonText(JStr("priceUpdate")) }

UnitPayloads ==
  { PyNone, JInt(42), JStr("hello") } \cup
  { Text(h, b) : h \in UnitHeads, b \in UnitBodies }

UnitArgs ==
  { <<>>,
    << JObj(<< KV("data", JObj(<< KV("inventory", JList(<< Widget >>)) >>)),
               KV("inventory", JList(<< Gizmo >>)) >>) >>,
    << JObj(<< KV("inventory", JList(<< Gizmo >>)),
               KV("data", JObj(<< KV("inventory", JList(<< Widget >>)) >>)) >>) >>,
    << Nested(<< Widget >>) >>,
    << Direct(<< Gizmo >>) >>,
    << JList(<< Widget, Gizmo >>) >>,
    << JList(<<>>) >>,
    << JObj(<< KV("data", JObj(<< KV("inventory", JStr("none")) >>)),
               KV("inventory", JList(<< Gizmo >>)) >>) >>,
    << JObj(<< KV("data", JStr("none")), KV("inventory", JList(<< Gizmo >>)) >>) >>,
    << JObj(<< KV("data", JList(<< Widget >>)), KV("inventory", JList(<< Gizmo >>)) >>) >>,
    << JObj(<< KV("data", JObj(<< KV("inventory", JList(<<>>)) >>)),
               KV("inventory", JList(<< Gizmo >>)) >>) >>,
    << JObj(<< KV("data", JObj(<< KV("x", JInt(1)) >>)) >>) >>,
    << JObj(<< KV("inventory", JObj(<< KV("x", JInt(1)) >>)) >>) >>,
    << JObj(<< KV("x", JInt(1)) >>) >>,
    << JStr("inventory") >>,
    << JInt(1) >>,
    << PyNone >>,
    << JInt(1), Nested(<< Widget >>) >>,
    << JStr("x"), JList(<< Widget >>) >>,
    << Direct(<< Widget >>), JList(<< Gizmo >>) >> }

\* a field is absent (<<>>) or present with a value (<<v>>)
NameOpts == { <<>>, << PyNone >>, << JStr("") >>, << JStr("Widget") >> }
HashNameOpts == { <<>>, << JStr("Gizmo") >> }
TitleOpts == { <<>>, << JStr("Title") >> }
PriceOpts == { <<>>, << JInt(0) >>, << JInt(250) >>, << JStr("abc") >> }
CentsOpts == { <<>>, << JInt(500) >> }
AmountOpts == { <<>>, << JInt(0) >>, << JInt(2) >>, << JStr("abc") >> }
QuantityOpts == { <<>>, << JInt(3) >> }

Field(key, opt) == IF opt = <<>> THEN <<>> ELSE << KV(key, opt[1]) >>

UnitRecord(n, h, t, p, c, a, q) ==
  JObj(Field("name", n) \o Field("market_hash_name", h) \o Field("title", t) \o
       Field("price", p) \o Field("price_cents", c) \o Field("amount", a) \o
       Field("quantity", q))

\* a record with a negative quantity and a negative price
WidgetReturned ==
  JObj(<< KV("name", JStr("Widget")), KV("amount", JInt(-1)), KV("price", JInt(-250)) >>)

UnitLists ==
  { <<>>,
    << Widget, Widget >>,
    << Widget, WidgetStrings, GizmoBadPrice >>,
    << Widget, WidgetBadQty >>,
    << Widget, WidgetReturned >>,
    << Widget, JInt(5), Gizmo >>,
    << JObj(<< KV("name", JList(<< JStr("Widget") >>)), KV("amount", JInt(2)) >>) >>,
    << JObj(<< KV("name", JInt(1)), KV("amount", JBool(TRUE)) >>),
       JObj(<< KV("name", JBool(TRUE)), KV("price", JBool(TRUE)) >>) >>,
    << JObj(<< KV("name", JStr("Widget")), KV("amount", JInt(-1)),
               KV("price", JInt(-250)) >>) >>,
    << JObj(<< KV("name", JStr("Widget")), KV("amount", JList(<< JInt(2) >>)) >>) >>,
    << JObj(<< KV("name", JStr("Widget")), KV("price", JList(<< JInt(2) >>)) >>) >> }

\* log entries for the frame extractor: frames in both directions, a
\* message text that is no JSON, an outer object without "message", an event
\* of another method, a message without "method", a frame event without
\* "params", and a message that is no object
RawPool ==
  << LogEntry(WsMessage(FrameReceived, EvPing)),
     LogEntry(WsMessage(FrameSent, EvInventory)),
     BadEntry,
     [message |-> Text(<<>>, JsonText(JObj(<< KV("x", JInt(1)) >>)))],
     LogEntry(WsMessage("Network.requestWillBeSent", EvPing)),
     LogEntry(JObj(<< KV("params", JObj(<< KV("response",
                JObj(<< KV("payloadData", EvPing) >>)) >>)) >>)),
     LogEntry(JObj(<< KV("method", JStr(FrameReceived)) >>)),
     LogEntry(JList(<< JInt(1) >>)) >>

RawBatch(pick) == [k \in DOMAIN pick |-> RawPool[pick[k]]]

InitUnit ==
  /\ pc = "unit"
  /\ mode = "unit"
  /\ env = [user |-> "user", pass |-> "secret"]
  /\ duration = 0
  /\ floods = 0
  /\ Blank

\* evt = parse_socketio(payload)
UnitParse ==
  /\ pc = "unit"
  /\ \E payload \in UnitPayloads :
       /\ call' = [fn |-> "parse_socketio", payload |-> payload]
       /\ evt' = parse_socketio(payload)
  /\ items' = <<>>
  /\ inv' = <<>>
  /\ exc' = "none"
  /\ merged' = <<>>
  /\ yielded' = <<>>
  /\ pc' = "returned"
  /\ UNCHANGED << mode, env, duration, now, start, driver, visited, polls,
                  quits, budget, floods, market_sample, seen, pending, invFile,
                  outFile, status, hist, invWrites, outWrites, extracts, skips, reportAt,
                  exhausted, logRaised >>

\* items = try_extract_inventory(args)
UnitExtract ==
  /\ pc = "unit"
  /\ \E args \in UnitArgs :
       /\ call' = [fn |-> "try_extract_inventory", args |-> args]
       /\ items' = try_extract_inventory(args)
  /\ evt' = PyNone
  /\ inv' = <<>>
  /\ exc' = "none"
  /\ merged' = <<>>
  /\ yielded' = <<>>
  /\ pc' = "returned"
  /\ UNCHANGED << mode, env, duration, now, start, driver, visited, polls,
                  quits, budget, floods, market_sample, seen, pending, invFile,
                  outFile, status, hist, invWrites, outWrites, extracts, skips, reportAt,
                  exhausted, logRaised >>

\* the harness has consumed iter_ws_frames with the outcome r
UnitYielded(raw, r) ==
  /\ call' = [fn |-> "iter_ws_frames", raw |-> raw]
  /\ yielded' = r.frames
  /\ exc' = r.exc
  /\ evt' = PyNone
  /\ items' = <<>>
  /\ inv' = <<>>
  /\ merged' = <<>>
  /\ pc' = "returned"
  /\ UNCHANGED << mode, env, duration, now, start, driver, visited, polls,
                  quits, budget, floods, market_sample, seen, pending, invFile,
                  outFile, status, hist, invWrites, outWrites, extracts, skips,
                  reportAt, exhausted, logRaised >>

\* list(iter_ws_frames(driver)) for a log of at most MaxRawLen entries
UnitFrames ==
  /\ pc = "unit"
  /\ \E len \in 0..MaxRawLen : \E pick \in [1..len -> 1..Len(RawPool)] :
       UnitYielded(RawBatch(pick), iter_ws_frames(RawBatch(pick)))

\* the harness has called merge_inventory({}, list) with the outcome r
UnitMerged(list, r) ==
  /\ call' = [fn |-> "merge_inventory", items |-> list]
  /\ inv' = r.agg
  /\ exc' = r.exc
  /\ merged' = SubSeq(list, 1, r.done)
  /\ evt' = PyNone
  /\ items' = <<>>
  /\ yielded' = <<>>
  /\ pc' = "returned"
  /\ UNCHANGED << mode, env, duration, now, start, driver, visited, polls,
                  quits, budget, floods, market_sample, seen, pending, invFile,
                  outFile, status, hist, invWrites, outWrites, extracts, skips, reportAt,
                  exhausted, logRaised >>

\* merge_inventory({}, [it]) for one record it
UnitMerge ==
  /\ pc = "unit"
  /\ \E n \in NameOpts, h \in HashNameOpts, t \in TitleOpts, p \in PriceOpts,
        c \in CentsOpts, a \in AmountOpts, q \in QuantityOpts :
       UnitMerged(<< UnitRecord(n, h, t, p, c, a, q) >>,
                  merge_inventory(<<>>, << UnitRecord(n, h, t, p, c, a, q) >>))

\* merge_inventory({}, list) for a list of items
UnitMergeList ==
  /\ pc = "unit"
  /\ \E list \in UnitLists : UnitMerged(list, merge_inventory(<<>>, list))

NextUnit ==
  \/ UnitFrames
  \/ UnitParse
  \/ UnitExtract
  \/ UnitMerge
  \/ UnitMergeList

SpecUnit == InitUnit /\ [][NextUnit]_vars

(***************************************************************************)
(* Claims C1 and C7: the dedup filter.                                     *)
(***************************************************************************)
\* a and b are the same JSON content: same types, same values, lists in the
\* same order, objects with the same members whatever their order
RECURSIVE JsonSame(_, _)
JsonSame(a, b) ==
  IF IsList(a) /\ IsList(b)
  THEN /\ Len(a.l) = Len(b.l)
       /\ \A n \in 1..Len(a.l) : JsonSame(a.l[n], b.l[n])
  ELSE IF IsDict(a) /\ IsDict(b)
  THEN /\ Len(a.o) = Len(b.o)
       /\ \A n \in 1..Len(a.o) :
            /\ HasKey(b, a.o[n].k)
            /\ JsonSame(a.o[n].v, Item(b, a.o[n].k))
  ELSE a = b

\* the recorded event h has the direction, name and argument content of e
SameEvent(h, direction, e) ==
  /\ h.direction = direction
  /\ JsonSame(h.name, e.name)
  /\ JsonSame(JList(h.args), JList(e.args))

\* the signature of the n-th recorded event
HistSig(n) == signature(hist[n].direction, hist[n].name, hist[n].args)

\* the step does not locate, merge or save anything
NothingMerged ==
  /\ inv' = inv
  /\ invFile' = invFile
  /\ invWrites' = invWrites
  /\ merged' = merged
  /\ extracts' = extracts
  /\ seen' = seen

\* every recorded event from position from on that is the same as e has the
\* signature of e, and if there is one the step skips e
SkipsRepeat(direction, e, from) ==
  /\ \A n \in from..Len(hist) :
       SameEvent(hist[n], direction, e) =>
         HistSig(n) = signature(direction, e.name, e.args)
  /\ (\E n \in from..Len(hist) : SameEvent(hist[n], direction, e)) =>
       NothingMerged /\ skips' = skips + 1

SkipsRepeatOf(f, from) ==
  (f.kind = "yield" /\ ~IsNone(parse_socketio(f.payload))) =>
    SkipsRepeat(f.direction, parse_socketio(f.payload), from)

\* the position in hist of the oldest of the last SeenMaxLen recorded events
WindowStart == IF Len(hist) > SeenMaxLen THEN Len(hist) - SeenMaxLen + 1 ELSE 1

\* C1 as stated: whenever the loop takes a frame that decodes to an event
\* with the direction, name and argument content of any event decoded
\* earlier in the run, the signatures are equal and the event is skipped:
\* try_extract_inventory and merge_inventory are not called and the
\* aggregate and the inventory snapshot stay as they are.
C1_AnyRepeatSkipped ==
  [][(pc = "frames" /\ pending # <<>>) =>
       SkipsRepeatOf(ws_frame(Head(pending)), 1)]_vars

\* C1 amended: the same, for an event that repeats one of the last 2000
\* events whose signature was recorded; a repeat of an older event, whose
\* signature the deque has evicted, is processed again.
C1_RecentRepeatSkipped ==
  [][(pc = "frames" /\ pending # <<>>) =>
       SkipsRepeatOf(ws_frame(Head(pending)), WindowStart)]_vars

\* the inventory event came twice, in two key orders, and was merged once
C1_Witness ==
  /\ skips = 1
  /\ extracts = Len(hist)
  /\ evt = [name |-> JStr("inventory"), args |-> << Nested(<< WidgetReordered >>) >>]
  /\ hist[1].args = << Nested(<< Widget >>) >>
  /\ inv = << [key |-> JStr("Widget"), amount |-> 2, total_price |-> 250] >>
  /\ invWrites = 1

\* C7: once more than SeenMaxLen signatures have been inserted, the deque
\* holds exactly the SeenMaxLen most recently inserted ones, oldest first,
\* and no longer holds the one inserted just before them; after
\* SeenMaxLen + 1 insertions that one is the very first inserted.
C7_EvictsOldest ==
  Len(hist) > SeenMaxLen =>
    /\ Len(seen) = SeenMaxLen
    /\ \A j \in 1..SeenMaxLen : seen[j] = HistSig(Len(hist) - SeenMaxLen + j)
    /\ ~sig_in(HistSig(Len(hist) - SeenMaxLen), seen)

\* SeenMaxLen + 1 signatures were inserted and the first one is gone
C7_Witness ==
  /\ Len(hist) = SeenMaxLen + 1
  /\ Len(seen) = SeenMaxLen
  /\ ~sig_in(HistSig(1), seen)
  /\ sig_in(HistSig(2), seen)
  /\ sig_in(HistSig(SeenMaxLen + 1), seen)

(***************************************************************************)
(* Claim C2: the aggregate is the sum of what was merged.                  *)
(***************************************************************************)
\* the quantity and the price merge_inventory takes from a record merged
\* under key, 0 for a record merged under another name
QtyUnder(it, key) == IF PyEq(item_name(it), key) THEN NumOf(item_qty(it)) ELSE 0

PriceUnder(it, key) == IF PyEq(item_name(it), key) THEN price_of(item_cents(it)) ELSE 0

RECURSIVE SumQty(_, _)
SumQty(records, key) ==
  IF records = <<>> THEN 0
  ELSE QtyUnder(Head(records), key) + SumQty(Tail(records), key)

RECURSIVE SumPrice(_, _)
SumPrice(records, key) ==
  IF records = <<>> THEN 0
  ELSE PriceUnder(Head(records), key) + SumPrice(Tail(records), key)

\* C2: for every name of the aggregate, amount is the sum of the quantities
\* of the records merged under it and total_price the sum of their prices,
\* each record's price counted once whatever its quantity; every merged
\* record has its name in the aggregate; Widget (price 250, amount 2) merged
\* once gives amount 2 and total_price 2.5, merged twice amount 4 and 5.0.
C2_AggregateSums ==
  /\ \A n \in 1..Len(inv) :
       /\ inv[n].amount = SumQty(merged, inv[n].key)
       /\ inv[n].total_price = SumPrice(merged, inv[n].key)
  /\ \A m \in 1..Len(merged) :
       \E n \in 1..Len(inv) : PyEq(inv[n].key, item_name(merged[m]))
  /\ merged = << Widget >> =>
       inv = << [key |-> JStr("Widget"), amount |-> 2, total_price |-> 250] >>
  /\ merged = << Widget, Widget >> =>
       inv = << [key |-> JStr("Widget"), amount |-> 4, total_price |-> 500] >>

\* Widget was merged twice
C2_Witness ==
  /\ merged = << Widget, Widget >>
  /\ inv = << [key |-> JStr("Widget"), amount |-> 4, total_price |-> 500] >>

(***************************************************************************)
(* Claim C3: malformed input and the loop.                                 *)
(***************************************************************************)
\* C3 as stated: once the loop has polled, main leaves it only because the
\* time budget is exhausted, with no exception in flight, and then writes
\* the final report.
C3_LoopNeverAborts ==
  (polls > 0 /\ pc \in {"finally", "exit"}) =>
    /\ exc = "none"
    /\ exhausted
    /\ outWrites = 1

(***************************************************************************)
(* Claim C4: the driver is released.                                       *)
(***************************************************************************)
\* C4: driver.quit is called at most once; when main is left after
\* setup_driver returned, it was called exactly once and the driver is
\* closed, whether the run completed, login raised or the loop raised; and
\* after the call there is no driver.get and no get_log.
C4_DriverReleasedOnce ==
  /\ [](quits <= 1)
  /\ []((pc = "exit" /\ driver # "none") => (quits = 1 /\ driver = "closed"))
  /\ [](driver = "closed" => pc = "exit")
  /\ [][quits > 0 => (visited' = visited /\ polls' = polls)]_vars

\* the loop raised and the driver was released
C4_Witness ==
  /\ pc = "exit"
  /\ polls > 0
  /\ exc = "ValueError"
  /\ driver = "closed"
  /\ quits = 1

(***************************************************************************)
(* Claim C5: the inventory snapshot follows the aggregate.                 *)
(***************************************************************************)
\* C5: while the loop is between two frames or between two polls, either
\* the aggregate is empty and inventory.json was never written, or
\* inventory.json holds the document of the aggregate.
C5_SnapshotFollowsAggregate ==
  pc \in {"loop", "frames"} =>
    \/ inv = <<>> /\ invWrites = 0 /\ invFile = NoFile
    \/ invWrites > 0 /\ invFile = save_json(inv)

\* the aggregate was updated twice and the snapshot holds it
C5_Witness ==
  /\ pc = "frames"
  /\ invWrites = 2
  /\ Len(inv) = 2
  /\ invFile = [doc |-> dump_inventory(inv)]

(***************************************************************************)
(* Claim C6: the final report.                                             *)
(***************************************************************************)
\* C6: the report is written at most once, and only after the loop
\* condition was found false; once the budget is exhausted and main is in or
\* past its finally clause it was written; it was written after the last
\* poll and before driver.quit; its inventory is the document of the
\* aggregate, which is the inventory snapshot if one was written, and its
\* market_sample is the empty list.
C6_FinalReportOnce ==
  /\ outWrites <= 1
  /\ (exhausted /\ pc \in {"finally", "exit"}) => outWrites = 1
  /\ ~exhausted => (outWrites = 0 /\ outFile = NoFile)
  /\ outWrites = 1 =>
       /\ reportAt.polls = polls
       /\ reportAt.quits = 0
       /\ outFile.doc.inventory = dump_inventory(inv)
       /\ outFile.doc.market_sample = <<>>
       /\ invWrites > 0 => outFile.doc.inventory = invFile.doc

\* the report was written with a non-empty aggregate, then the driver released
C6_Witness ==
  /\ pc = "exit"
  /\ exhausted
  /\ outWrites = 1
  /\ invWrites > 0
  /\ inv # <<>>
  /\ quits = 1
  /\ outFile.doc.inventory = invFile.doc

(***************************************************************************)
(* Claim C8: the fields of an item record.                                 *)
(***************************************************************************)
\* the value of the first of keys that it has with a value other than null,
\* default if there is none
RECURSIVE FirstPresent(_, _, _)
FirstPresent(it, keys, default) ==
  IF keys = <<>> THEN default
  ELSE IF HasKey(it, Head(keys)) /\ ~IsNone(Item(it, Head(keys)))
  THEN Item(it, Head(keys))
  ELSE FirstPresent(it, Tail(keys), default)

\* the aggregate after one record was merged with these fields
OneEntry(name, cents, qty) ==
  << [key |-> name, amount |-> NumOf(qty), total_price |-> price_of(cents)] >>

\* C8 as stated: when merge_inventory has merged one record into the empty
\* aggregate, the entry is the one of the first present name, the first
\* present price and the first present quantity of the record.
C8_FirstPresentFields ==
  (/\ pc = "returned"
   /\ call.fn = "merge_inventory"
   /\ Len(call.items) = 1
   /\ IsDict(call.items[1])
   /\ exc = "none") =>
    /\ IntOk(FirstPresent(call.items[1], << "amount", "quantity" >>, JInt(1)))
    /\ inv = OneEntry(FirstPresent(call.items[1],
                                   << "name", "market_hash_name", "title" >>,
                                   JStr("UNKNOWN")),
                      FirstPresent(call.items[1], << "price", "price_cents" >>, JInt(0)),
                      FirstPresent(call.items[1], << "amount", "quantity" >>, JInt(1)))

(***************************************************************************)
(* Claim C9: the priority of the locator.                                  *)
(***************************************************************************)
\* d[key] is there and is a list, an object
ListAt(d, key) == HasKey(d, key) /\ IsList(Item(d, key))

DictAt(d, key) == HasKey(d, key) /\ IsDict(Item(d, key))

\* the list the priority order (a), (b), (c) gives for the first argument
LocatedIn(first) ==
  IF IsDict(first) /\ DictAt(first, "data") /\ ListAt(Item(first, "data"), "inventory")
  THEN Item(Item(first, "data"), "inventory").l
  ELSE IF IsDict(first) /\ ListAt(first, "inventory")
  THEN Item(first, "inventory").l
  ELSE IF IsList(first) THEN first.l
  ELSE <<>>

BothPaths ==
  << JObj(<< KV("data", JObj(<< KV("inventory", JList(<< Widget >>)) >>)),
             KV("inventory", JList(<< Gizmo >>)) >>) >>

\* C9: try_extract_inventory returns the empty list for no arguments, and
\* else what the priority order gives for the first argument alone; for
\* {data: {inventory: [Widget]}, inventory: [Gizmo]} it returns [Widget].
C9_LocatorPriority ==
  (pc = "returned" /\ call.fn = "try_extract_inventory") =>
    /\ call.args = <<>> => items = <<>>
    /\ call.args # <<>> => items = LocatedIn(call.args[1])
    /\ call.args = BothPaths => items = << Widget >>

\* both paths were there and the nested one was returned
C9_Witness ==
  /\ pc = "returned"
  /\ call.fn = "try_extract_inventory"
  /\ call.args = BothPaths
  /\ items = << Widget >>

(***************************************************************************)
(* Claim C10: the Socket.IO decoder.                                       *)
(***************************************************************************)
\* p is text: the characters 42, then the text of a JSON array that has an
\* element
IsEventFrame(p) ==
  /\ IsText(p)
  /\ p.head = << "4", "2" >>
  /\ p.body.wf
  /\ IsList(p.body.val)
  /\ Len(p.body.val.l) >= 1

PriceUpdate == << JStr("priceUpdate"), JObj(<< KV("x", JInt(1)) >>) >>

\* C10: parse_socketio returns a pair exactly for such a payload, the first
\* element of the array and the rest of it in order, and None for every
\* other payload; it raises for none.
C10_ParseSocketIO ==
  (pc = "returned" /\ call.fn = "parse_socketio") =>
    /\ exc = "none"
    /\ IsEventFrame(call.payload) <=> ~IsNone(evt)
    /\ ~IsNone(evt) =>
         /\ evt.name = call.payload.body.val.l[1]
         /\ evt.args = SubSeq(call.payload.body.val.l, 2, Len(call.payload.body.val.l))
    /\ call.payload = Text(<< "4", "2" >>, JsonText(JList(PriceUpdate))) =>
         evt = [name |-> PriceUpdate[1], args |-> << PriceUpdate[2] >>]

\* 42["priceUpdate",{"x":1}] was decoded
C10_Witness ==
  /\ pc = "returned"
  /\ call.fn = "parse_socketio"
  /\ call.payload = Text(<< "4", "2" >>, JsonText(JList(PriceUpdate)))
  /\ evt = [name |-> JStr("priceUpdate"), args |-> << JObj(<< KV("x", JInt(1)) >>) >>]

(***************************************************************************)
(* Claim C11: the frame extractor.                                         *)
(***************************************************************************)
\* the message text of the entry is a JSON object with a "message" member
EntryParses(entry) ==
  /\ IsText(entry.message)
  /\ entry.message.head = <<>>
  /\ entry.message.body.wf
  /\ IsDict(entry.message.body.val)
  /\ HasKey(entry.message.body.val, "message")

EntryMessage(entry) == Item(entry.message.body.val, "message")

\* the entry parses and its method is the frame-received or frame-sent event
IsFrameEntry(entry) ==
  /\ EntryParses(entry)
  /\ IsDict(EntryMessage(entry))
  /\ HasKey(EntryMessage(entry), "method")
  /\ Item(EntryMessage(entry), "method") \in {JStr(FrameReceived), JStr(FrameSent)}

FrameTag(entry) ==
  IF Item(EntryMessage(entry), "method") = JStr(FrameReceived) THEN "in" ELSE "out"

\* the frame entries of the log, in the order of the log
FrameEntries(raw) == SelectSeq(raw, IsFrameEntry)

\* C11 as stated: whatever the log of a poll holds, the frame extractor
\* raises nothing and yields one frame for each entry whose method is the
\* frame-received or frame-sent event, tagged in or out, in the order of the
\* log; every other entry, and every entry that fails to parse, is passed
\* over and the entries after it are processed as if it were not there.
C11_FrameEntriesOnly ==
  (pc = "returned" /\ call.fn = "iter_ws_frames") =>
    /\ exc = "none"
    /\ Len(yielded) = Len(FrameEntries(call.raw))
    /\ \A k \in 1..Len(yielded) :
         yielded[k].direction = FrameTag(FrameEntries(call.raw)[k])

(***************************************************************************)
(* Claim C12: missing credentials.                                         *)
(***************************************************************************)
CredentialsMissing == env.user = "" \/ env.pass = ""

\* C12: when the username or the password is missing or empty, main does
\* nothing but leave with status 1: at every moment of such a run there is
\* no driver, no page was opened, no log was polled, driver.quit was not
\* called, and neither inventory.json nor rustyloot_market.json exists.
C12_NoPartialRun ==
  CredentialsMissing =>
    /\ pc \in {"start", "exit"}
    /\ pc = "exit" => status = 1
    /\ driver = "none"
    /\ visited = <<>>
    /\ polls = 0
    /\ quits = 0
    /\ invFile = NoFile
    /\ outFile = NoFile
    /\ invWrites = 0
    /\ outWrites = 0

\* main has returned 1 with a username and no password
C12_Witness ==
  /\ pc = "exit"
  /\ env.user # ""
  /\ env.pass = ""
  /\ status = 1
  /\ driver = "none"

(***************************************************************************)
(* Claim C13: a failed login.                                              *)
(***************************************************************************)
\* the bounded wait of login ran out: only login raises TimeoutException
LoginFailed == exc = "TimeoutException"

\* C13: after login has raised, the exception is never cleared, the target
\* page is not opened, the loop is not entered, no log is polled, neither
\* file is written, and main is left with the driver released exactly once
\* and a status other than 0.
C13_LoginFailureAborts ==
  /\ [](LoginFailed =>
          /\ pc \in {"finally", "exit"}
          /\ visited = << AUTH_URL >>
          /\ polls = 0
          /\ invFile = NoFile
          /\ outFile = NoFile
          /\ invWrites = 0
          /\ outWrites = 0
          /\ pc = "exit" => (quits = 1 /\ driver = "closed" /\ status # 0))
  /\ [][LoginFailed => exc' = exc]_vars

\* login raised, the driver was released and main was left with status 1
C13_Witness ==
  /\ LoginFailed
  /\ pc = "exit"
  /\ visited = << AUTH_URL >>
  /\ quits = 1
  /\ driver = "closed"
  /\ status = 1

(***************************************************************************)
(* Claim C14: a poll whose get_log fails.                                  *)
(***************************************************************************)
\* this step is a poll whose driver.get_log raised
FailedPoll == polls' = polls + 1 /\ logRaised'

\* the tick of a failed poll is under way
InFailedTick == logRaised /\ pc = "frames"

LoopDataUnchanged ==
  /\ inv' = inv
  /\ seen' = seen
  /\ invFile' = invFile
  /\ outFile' = outFile
  /\ invWrites' = invWrites
  /\ outWrites' = outWrites

\* C14: a poll whose get_log raises yields no entry and no exception; the
\* tick it starts has no frame to process and ends with the sleep, back at
\* the loop condition; from the poll to the end of the tick the aggregate,
\* the deque seen, inventory.json and rustyloot_market.json stay as they
\* were.
C14_FailedPollIsEmptyTick ==
  /\ [][FailedPoll =>
          /\ pending' = <<>>
          /\ exc' = "none"
          /\ pc' = "frames"
          /\ LoopDataUnchanged]_vars
  /\ [](InFailedTick => (pending = <<>> /\ exc = "none"))
  /\ [][InFailedTick => (pc' = "loop" /\ exc' = "none" /\ LoopDataUnchanged)]_vars

\* a tick whose poll failed has ended with the aggregate and the snapshot of
\* an earlier tick in place, and the loop is about to poll again
C14_Witness ==
  /\ logRaised
  /\ pc = "loop"
  /\ in_budget
  /\ polls >= 2
  /\ exc = "none"
  /\ inv # <<>>
  /\ invFile = save_json(inv)
  /\ seen # <<>>

(***************************************************************************)
(* Claim C15: the loop is bounded by the time budget alone.                *)
(***************************************************************************)
InPolling == pc \in {"loop", "frames"}

\* C15 as stated: a poll starts only while the elapsed time is below the
\* duration; the loop is left only at its condition, when the elapsed time
\* has reached the duration; and a tick that has started visits every one of
\* its entries before it sleeps.
C15_BudgetAloneEndsLoop ==
  /\ [][polls' # polls => (pc = "loop" /\ in_budget)]_vars
  /\ [][(InPolling /\ ~InPolling') => (pc = "loop" /\ ~in_budget)]_vars
  /\ [][(pc = "frames" /\ pending # <<>>) =>
          (pc' = "frames" /\ pending' = Tail(pending))]_vars

(***************************************************************************)
(* Claim C16: the aggregate grows monotonically.                           *)
(***************************************************************************)
\* the aggregate once the first k records of the list went through
\* merge_inventory
AggAfter(list, k) == merge_inventory(<<>>, SubSeq(list, 1, k)).agg

\* from aggregate a to aggregate b no name is removed
NamesKept(a, b) ==
  \A n \in 1..Len(a) : \E m \in 1..Len(b) : PyEq(b[m].key, a[n].key)

\* from aggregate a to aggregate b no amount and no total_price decreases
NoDecrease(a, b) ==
  \A n \in 1..Len(a) : \A m \in 1..Len(b) :
    PyEq(b[m].key, a[n].key) =>
      /\ b[m].amount >= a[n].amount
      /\ b[m].total_price >= a[n].total_price

\* C16 as stated: whatever records are merged, from the aggregate before a
\* record to the aggregate after it no name is removed and, for every name,
\* amount and total_price do not decrease.
C16_AggregateMonotone ==
  (pc = "returned" /\ call.fn = "merge_inventory") =>
    \A k \in 0..(Len(call.items) - 1) :
      /\ NamesKept(AggAfter(call.items, k), AggAfter(call.items, k + 1))
      /\ NoDecrease(AggAfter(call.items, k), AggAfter(call.items, k + 1))

(***************************************************************************)
(* Claim C17: the lifecycle of a run.                                      *)
(***************************************************************************)
\* the lifecycle state main is in: 0 NOT_LOGGED_IN (up to and including
\* login), 1 LOGGED_IN (login returned), 2 POLLING (the while loop),
\* 3 DONE (past the loop, or aborted)
PhaseOf(at) ==
  IF at \in {"start", "setup", "login"} THEN 0
  ELSE IF at = "nav" THEN 1
  ELSE IF at \in {"loop", "frames"} THEN 2
  ELSE 3

Phase == PhaseOf(pc)

BothPagesOpened == visited = << AUTH_URL, WITHDRAW_URL >>

\* C17: main never goes back to a lifecycle state it has left, and goes
\* forward one state at a time unless it aborts; get_log is called only in
\* the loop, with the driver open, after login returned and the target page
\* was opened; the final report is written only at the end of the loop, when
\* the budget is exhausted, and once it is written the loop is not entered
\* again.
C17_LifecycleForward ==
  /\ [][Phase' >= Phase]_vars
  /\ [][Phase' > Phase + 1 => pc' \in {"finally", "exit"}]_vars
  /\ [](Phase \in {1, 2} => (visited[1] = AUTH_URL /\ exc = "none" /\ driver = "open"))
  /\ [](Phase = 2 => BothPagesOpened)
  /\ [][polls' # polls => (pc = "loop" /\ BothPagesOpened /\ driver = "open")]_vars
  /\ [][outWrites' # outWrites => (pc = "report" /\ exhausted /\ ~in_budget)]_vars
  /\ [](outWrites > 0 => Phase = 3)

\* a run went through login, the target page, two polls and the report
C17_Witness ==
  /\ pc = "exit"
  /\ status = 0
  /\ BothPagesOpened
  /\ polls >= 2
  /\ outWrites = 1
  /\ reportAt.polls = polls

(***************************************************************************)
(* Claim C18: the size of the dedup filter and its distinct signatures.    *)
(***************************************************************************)
\* the signatures the deque holds, as a set
SeenSet == {seen[n] : n \in 1..Len(seen)}

\* C18: at every moment of a run the deque seen holds at most SeenMaxLen
\* (2000) signatures and holds no signature twice.
C18_BoundedDistinct ==
  /\ Len(seen) <= SeenMaxLen
  /\ Cardinality(SeenSet) = Len(seen)

\* the deque is full, the inventory event was seen twice and recorded once,
\* and more signatures were recorded than the deque holds
C18_Witness ==
  /\ pc \in {"loop", "frames"}
  /\ Len(seen) = SeenMaxLen
  /\ Len(hist) > SeenMaxLen
  /\ skips > 0
  /\ Cardinality(SeenSet) = SeenMaxLen

(***************************************************************************)
(* Claim C19: an event without inventory.                                  *)
(***************************************************************************)
\* the signature of the event the frame f decodes to
FrameSig(f) ==
  signature(f.direction, parse_socketio(f.payload).name, parse_socketio(f.payload).args)

\* the frame f decodes to an event
Decodes(f) == f.kind = "yield" /\ ~IsNone(parse_socketio(f.payload))

\* the frame f decodes to an event whose signature is not in seen and in
\* whose arguments try_extract_inventory finds nothing
NewEventWithoutItems(f) ==
  /\ Decodes(f)
  /\ FrameSig(f) \notin SeenSet
  /\ try_extract_inventory(parse_socketio(f.payload).args) = <<>>

\* the step appends sig to seen, at the cost of the oldest signature when
\* seen is full
Recorded(sig) ==
  /\ seen' = IF Len(seen) < SeenMaxLen
             THEN seen \o << sig >>
             ELSE SubSeq(seen, 2, Len(seen)) \o << sig >>
  /\ Len(hist') = Len(hist) + 1
  /\ signature(hist'[Len(hist')].direction, hist'[Len(hist')].name,
               hist'[Len(hist')].args) = sig

\* C19: when the loop takes a frame that decodes to an event that is no
\* duplicate and carries no inventory list, the aggregate and inventory.json
\* stay as they are and nothing is written or merged, while the signature
\* of the event is appended to seen, where it evicts the oldest signature if
\* seen is full.
C19_EmptyExtractionRecorded ==
  [][(pc = "frames" /\ pending # <<>> /\ NewEventWithoutItems(ws_frame(Head(pending)))) =>
       /\ inv' = inv
       /\ invFile' = invFile
       /\ invWrites' = invWrites
       /\ merged' = merged
       /\ exc' = "none"
       /\ items' = <<>>
       /\ Recorded(FrameSig(ws_frame(Head(pending))))]_vars

\* the ping event was recorded as signature SeenMaxLen + 1 and evicted the
\* signature of the inventory event, whose records stay merged once
C19_Witness ==
  /\ Len(hist) = SeenMaxLen + 1
  /\ hist[1].name = JStr("inventory")
  /\ hist[SeenMaxLen + 1].name = JStr("ping")
  /\ seen[SeenMaxLen] = HistSig(SeenMaxLen + 1)
  /\ HistSig(1) \notin SeenSet
  /\ inv = << [key |-> JStr("Widget"), amount |-> 2, total_price |-> 250] >>
  /\ invWrites = 1
  /\ merged = << Widget >>

(***************************************************************************)
(* Claim C20: which events are skipped.                                    *)
(***************************************************************************)
\* sig is the signature of one of the last SeenMaxLen recorded events
InWindow(sig) == \E n \in WindowStart..Len(hist) : HistSig(n) = sig

\* the step skips the event: nothing is recorded, located, merged or saved
Skipped ==
  /\ skips' = skips + 1
  /\ hist' = hist
  /\ NothingMerged

\* the step processes the event: its signature is recorded and its
\* arguments go through try_extract_inventory and, if a list is found,
\* through merge_inventory
Processed(args) ==
  /\ skips' = skips
  /\ Len(hist') = Len(hist) + 1
  /\ extracts' = extracts + 1
  /\ items' = try_extract_inventory(args)
  /\ exc' = "none" => merged' = merged \o try_extract_inventory(args)

SkippedIffInWindow(f) ==
  Decodes(f) =>
    IF InWindow(FrameSig(f)) THEN Skipped ELSE Processed(parse_socketio(f.payload).args)

\* C20: when the loop takes a frame that decodes to an event, the event is
\* skipped if its signature is that of one of the last 2000 recorded events,
\* and processed otherwise; in particular an inventory event whose
\* signature was recorded more than 2000 recorded events ago is processed
\* and its records are merged again.
C20_SkippedIffRecent ==
  [][(pc = "frames" /\ pending # <<>>) =>
       SkippedIffInWindow(ws_frame(Head(pending)))]_vars

\* the inventory event was recorded first and again as event SeenMaxLen + 2,
\* after its signature was evicted, and Widget was merged twice
C20_Witness ==
  /\ Len(hist) = SeenMaxLen + 2
  /\ hist[1] = hist[SeenMaxLen + 2]
  /\ hist[1].name = JStr("inventory")
  /\ merged = << Widget, Widget >>
  /\ inv = << [key |-> JStr("Widget"), amount |-> 4, total_price |-> 500] >>
  /\ invWrites = 2
  /\ skips = 0

====
